---- MODULE Spec2Model ----
(***************************************************************************)
(* Model of the ai-blog editor's regeneration pipeline:                    *)
(*   - the editor page    (src/app/editor/[postId]/page.tsx)               *)
(*   - the preview pane   (src/components/editor/PreviewPane.tsx)          *)
(*   - the useRegenerate hook and the db helpers (src/unnamed/part_001)    *)
(*   - the /api/regenerate route (src/app/api/regenerate/route.ts)         *)
(*   - the offset helpers (src/lib/markdown-utils.ts)                      *)
(* Texts are sequences of one-character strings.                           *)
(***************************************************************************)
EXTENDS Integers, Sequences, FiniteSets, TLC

\* ------------------------------------------------------------------ bounds
MaxQueue   == 2   \* feedback items created in a session
MaxFrags   == 1   \* text fragments the collaborator streams per request
MaxEdits   == 1   \* direct edits typed into the textarea
MaxBatches == 2   \* batches dispatched in a session
MaxAccepts == 2   \* calls of handleConfirmChanges
MaxSaves   == 1   \* auto-save timers that fire
MaxUnread  == 1   \* events enqueued on the response stream and not yet read
MaxTextLen == 3   \* length of the texts the helpers are called with
MaxListLen == 2   \* length of the lists groupFeedbackByProximity is called with
MaxRouteFrags == 2 \* fragments per request in the runs of the route alone
MaxTyped   == 5   \* edits typed in the runs of the editor alone
MaxOps     == 4   \* items, edits, batches, accepts and auto-saves of a session, together

\* ------------------------------------------------------------------ inputs
\* null for a string | null state: a value no text is equal to
NULL == << "null" >>

\* null for the Selection | null state of the preview pane
NoSelection == [ text |-> NULL, startOffset |-> 0, endOffset |-> 0 ]

\* the route's loop variable before the first iteration
NoItem == [ id |-> 0, type |-> "none", startOffset |-> 0, endOffset |-> 0,
            selectedText |-> NULL ]

\* null for the imageRequest state of the preview pane (an insertOffset otherwise)
NoRequest == -1

\* the markdown of a generated image
ImageMarkdown == << "!" >>

\* documents a session can be opened on
DocTexts == { <<"a", "b", " ", "c", "d">>, <<"#", " ", "a", "b">> }

\* fragments the rewrite collaborator can emit
Fragments == { <<"Y">> }

\* characters a direct edit can type
EditChars == { "z" }

\* browser selections [from, to) of the rendered text a user can make
MouseSelections == { <<0, 2>>, <<1, 2>>, <<2, 5>> }

\* ------------------------------------------------------- string primitives
Min(a, b) == IF a < b THEN a ELSE b
Max(a, b) == IF a > b THEN a ELSE b

\* String.prototype.slice index resolution: negative counts from the end,
\* everything is clamped to [0, len]
SliceIndex(len, i) == IF i < 0 THEN Max(len + i, 0) ELSE Min(i, len)

\* String.prototype.slice(a, b), 0-based half-open
Slice(t, a, b) ==
  LET from == SliceIndex(Len(t), a)
      to   == SliceIndex(Len(t), b)
  IN  IF from >= to THEN << >> ELSE SubSeq(t, from + 1, to)

\* String.prototype.slice(a)
SliceFrom(t, a) == Slice(t, a, Len(t))

IsSpace(c) == c \in { " ", "\n" }

RECURSIVE TrimStart(_)
TrimStart(t) ==
  IF t # << >> /\ IsSpace(Head(t)) THEN TrimStart(Tail(t)) ELSE t

RECURSIVE TrimEnd(_)
TrimEnd(t) ==
  IF t # << >> /\ IsSpace(t[Len(t)]) THEN TrimEnd(SubSeq(t, 1, Len(t) - 1)) ELSE t

\* String.prototype.trim()
Trim(t) == TrimEnd(TrimStart(t))

\* JavaScript truthiness of a number and of a string | null
TruthyNum(n) == n # 0
TruthyStr(s) == s # NULL /\ s # << >>

\* ------------------------------------------------------- markdown-utils.ts
\* variant: the start of the window is not clamped to 0
getContextAround_NoClamp(md, startOffset, endOffset, contextLength) ==
  [ before |-> Slice(md, startOffset - contextLength, startOffset),
    after  |-> Slice(md, endOffset, Min(Len(md), endOffset + contextLength)) ]

getContextAround(md, startOffset, endOffset, contextLength) ==
  [ before |-> Slice(md, Max(0, startOffset - contextLength), startOffset),
    after  |-> Slice(md, endOffset, Min(Len(md), endOffset + contextLength)) ]

\* variant: the character before endOffset is kept
replaceSection_KeepsLast(md, startOffset, endOffset, newContent) ==
  Slice(md, 0, startOffset) \o newContent \o SliceFrom(md, endOffset - 1)

replaceSection(md, startOffset, endOffset, newContent) ==
  Slice(md, 0, startOffset) \o newContent \o SliceFrom(md, endOffset)


\* program constants
ContextLength     == 200    \* radius of the context window sent with a request
FirstVersionNumber == 1     \* versionNumber of a post's first revision

\* String.prototype.split('\n'): the pieces between the newlines
RECURSIVE SplitLines(_)
SplitLines(t) ==
  IF \A i \in 1 .. Len(t) : t[i] # "\n"
  THEN << t >>
  ELSE LET i == CHOOSE k \in 1 .. Len(t) :
                  t[k] = "\n" /\ \A j \in 1 .. k - 1 : t[j] # "\n"
       IN  << SubSeq(t, 1, i - 1) >> \o SplitLines(SubSeq(t, i + 1, Len(t)))

\* variant: the newlines before the offset are counted, the first line is 0
offsetToLine_FromZero(md, offset) == Len(SplitLines(Slice(md, 0, offset))) - 1

offsetToLine(md, offset) == Len(SplitLines(Slice(md, 0, offset)))

\* the loop of lineToOffset: lines[0 .. n-1], each with its newline
RECURSIVE LineSum(_, _)
LineSum(lines, n) ==
  IF n <= 0 THEN 0 ELSE LineSum(lines, n - 1) + Len(lines[n]) + 1

\* variant: the newline that ends each line is not counted
lineToOffset_NoNewline(md, lineNumber) ==
  LET lines == SplitLines(md)
      n     == Max(0, Min(lineNumber - 1, Len(lines)))
  IN  LineSum(lines, n) - n

lineToOffset(md, lineNumber) ==
  LET lines == SplitLines(md)
  IN  LineSum(lines, Min(lineNumber - 1, Len(lines)))

\* an optional number that is absent; x || 0
Undefined == -1
OrZero(n) == IF n = Undefined THEN 0 ELSE n

\* Array.prototype.sort is stable: an index goes after the indices already
\* placed whose startOffset is not greater
InsertByStart(sorted, index, items) ==
  LET key(i) == OrZero(items[i + 1].startOffset)
      k == Cardinality({ j \in 1 .. Len(sorted) : key(sorted[j]) <= key(index) })
  IN  SubSeq(sorted, 1, k) \o << index >> \o SubSeq(sorted, k + 1, Len(sorted))

\* items.map(...).filter(startOffset !== undefined).sort(...), as the indices
\* (from 0) of the first n items
RECURSIVE IndexedByStart(_, _)
IndexedByStart(items, n) ==
  IF n = 0 THEN << >>
  ELSE IF items[n].startOffset = Undefined
       THEN IndexedByStart(items, n - 1)
       ELSE InsertByStart(IndexedByStart(items, n - 1), n - 1, items)

\* the for loop of groupFeedbackByProximity from position i of indexed
RECURSIVE GroupLoop(_, _, _, _, _, _)
GroupLoop(items, indexed, i, groups, currentGroup, proximityThreshold) ==
  IF i > Len(indexed)
  THEN IF Len(currentGroup) > 0 THEN Append(groups, currentGroup) ELSE groups
  ELSE LET prevItem == items[indexed[i - 1] + 1]
           currItem == items[indexed[i] + 1]
           distance == OrZero(currItem.startOffset) - OrZero(prevItem.endOffset)
       IN  IF distance <= proximityThreshold
           THEN GroupLoop(items, indexed, i + 1, groups,
                          Append(currentGroup, indexed[i]), proximityThreshold)
           ELSE GroupLoop(items, indexed, i + 1, Append(groups, currentGroup),
                          << indexed[i] >>, proximityThreshold)

\* indexed[0].index of an empty array is a TypeError
groupFeedbackByProximity(items, proximityThreshold) ==
  IF Len(items) = 0
  THEN [ threw |-> FALSE, groups |-> << >> ]
  ELSE LET indexed == IndexedByStart(items, Len(items))
       IN  IF indexed = << >>
           THEN [ threw |-> TRUE, groups |-> << >> ]
           ELSE [ threw |-> FALSE,
                  groups |-> GroupLoop(items, indexed, 2, << >>, << indexed[1] >>,
                                       proximityThreshold) ]

\* --------------------------------------------------------- rendered preview
\* Text of the preview container for the documents of DocTexts: the
\* renderer turns a leading ATX heading marker "# " into an <h1> element,
\* whose text content no longer holds the marker; prose is left as it is.
Render(md) ==
  IF Len(md) >= 3 /\ md[1] = "#" /\ md[2] = " " /\ ~IsSpace(md[3])
  THEN SliceFrom(md, 2)
  ELSE md

\* ------------------------------------------------------------------- state
VARIABLES
  markdown,                 \* page.tsx: useState markdown (the document text)
  version,                  \* page.tsx: useState version (current PostVersion)
  post,                     \* page.tsx: useState post (BlogPost)
  feedbackMode,             \* page.tsx: useState feedbackMode
  feedbackItems,            \* page.tsx: useState feedbackItems (request queue)
  pendingMarkdown,          \* page.tsx: useState pendingMarkdown (candidate)
  preRegenerationMarkdown,  \* page.tsx: useState preRegenerationMarkdown
  selection,                \* PreviewPane.tsx: useState selection
  regen,                    \* useRegenerate: state {isRegenerating, progress}
  dbVersions,               \* IndexedDB store 'versions', keyed by id
  dbPost,                   \* IndexedDB store 'posts': the record of this post
  srv,                      \* /api/regenerate: locals of the running POST stream
  sent,                     \* events the route has enqueued on the response stream
  rd,                       \* number of events of sent the hook has handled
  accepts,                  \* handleConfirmChanges calls awaiting persistence
  saveTimer,                \* auto-save effect: the timeouts that are armed
  lastAlert,                \* useRegenerate: text of the last alert() shown
  imageMode,                \* page.tsx: useState imageMode
  imageRequest,             \* PreviewPane.tsx: insertOffset of the open image popover
  call,                     \* one recorded call (a helper of markdown-utils.ts, or a
                            \* handler that returned at its guard), arguments and result
  nItems, nEdits, nBatches, nSaves, nextVersionId

pageVars == << markdown, version, post, feedbackMode, feedbackItems,
              pendingMarkdown, preRegenerationMarkdown, selection, regen,
              dbVersions, dbPost, srv, sent, rd, accepts, saveTimer, lastAlert,
              imageMode, imageRequest, nItems, nEdits, nBatches, nSaves,
              nextVersionId >>

vars == << markdown, version, post, feedbackMode, feedbackItems,
           pendingMarkdown, preRegenerationMarkdown, selection, regen,
           dbVersions, dbPost, srv, sent, rd, accepts, saveTimer, lastAlert,
           imageMode, imageRequest, call, nItems, nEdits, nBatches, nSaves, nextVersionId >>

\* no alert() was shown yet; the text of the alert of the hook's catch block
NoAlert == "none"
AlertText == "Failed to regenerate content. Please try again."

\* no helper was called
NoCall == [ fn |-> "none", text |-> << >>, startOffset |-> 0, endOffset |-> 0,
            newContent |-> << >>, lineNumber |-> 0,
            items |-> << >>, threshold |-> 0,
            outText |-> << >>, outAfter |-> << >>, outNum |-> 0,
            outGroups |-> << >>, threw |-> FALSE ]

IdleSrv ==
  [ pc |-> "idle", markdown |-> << >>, feedbackItems |-> << >>,
    items |-> << >>, currentMarkdown |-> << >>, item |-> NoItem,
    regeneratedText |-> << >>, context |-> [ before |-> << >>, after |-> << >> ], nFrags |-> 0 ]

\* the route after its stream was read to the end: nothing of the request is
\* left but the queue that was posted, the batch of the transaction
EndedSrv(s) == [ IdleSrv EXCEPT !.feedbackItems = s.feedbackItems ]

IdleRegen == [ isRegenerating |-> FALSE, progress |-> << >> ]

\* state after loadPost() of a post created by handleCreatePost
PageInit ==
  \E doc \in DocTexts :
    LET v == [ id |-> 1, versionNumber |-> FirstVersionNumber, content |-> doc ]
    IN  /\ markdown = doc
        /\ version = v
        /\ post = [ id |-> "post", currentVersionId |-> 1 ]
        /\ dbVersions = (1 :> v)
        /\ dbPost = [ id |-> "post", currentVersionId |-> 1 ]
        /\ feedbackMode = FALSE
        /\ feedbackItems = << >>
        /\ pendingMarkdown = NULL
        /\ preRegenerationMarkdown = NULL
        /\ selection = NoSelection
        /\ regen = IdleRegen
        /\ srv = IdleSrv
        /\ sent = << >>
        /\ rd = 0
        /\ accepts = << >>
        /\ saveTimer = { }
        /\ lastAlert = NoAlert
        /\ imageMode = FALSE
        /\ imageRequest = NoRequest
        /\ nItems = 0 /\ nEdits = 0 /\ nBatches = 0 /\ nSaves = 0
        /\ nextVersionId = 2

Init == PageInit /\ call = NoCall

\* what the session has used of MaxOps
Ops == nItems + nEdits + nBatches + (nextVersionId - 2) + nSaves
         + (IF call.fn = "none" THEN 0 ELSE 1)

\* ------------------------------------------------------ effects of a render
\* page.tsx auto-save effect: runs when markdown, version or post changed;
\* its cleanup clears the armed timeout, then a new one is armed unless the
\* text equals the content of the current version
\* the render a timeout was armed in: the values its callback closes over
TimerOf(md, v, p) == [ markdown |-> md, version |-> v, post |-> p ]

\* variant: the effect returns no cleanup, a timeout once armed stays armed
AutoSaveTimers_NoCleanup(timers) ==
  IF << markdown', version', post' >> # << markdown, version, post >>
  THEN timers
         \cup ( IF markdown' # version'.content
                THEN { TimerOf(markdown', version', post') } ELSE { } )
  ELSE timers

\* the timeouts armed after the step: when a dependency changed, the cleanup
\* of the previous run clears its timeout and the effect arms a new one
\* unless markdown === version.content
AutoSaveTimers(timers) ==
  IF << markdown', version', post' >> # << markdown, version, post >>
  THEN ( timers \ { TimerOf(markdown, version, post) } )
         \cup ( IF markdown' # version'.content
                THEN { TimerOf(markdown', version', post') } ELSE { } )
  ELSE timers

AutoSaveEffect == saveTimer' = AutoSaveTimers(saveTimer)

\* PreviewPane effect: the selection and the image request are dropped when
\* the pane is rendered with feedbackMode and imageMode both false (the page
\* passes feedbackMode && !pendingMarkdown and imageMode && !pendingMarkdown)
PreviewFeedbackMode(fm, pm) == fm /\ ~TruthyStr(pm)

PreviewImageMode(im, pm) == im /\ ~TruthyStr(pm)

PreviewEffect(sel) ==
  LET active == \/ PreviewFeedbackMode(feedbackMode', pendingMarkdown')
                \/ PreviewImageMode(imageMode', pendingMarkdown')
  IN  /\ selection' = IF active THEN sel ELSE NoSelection
      /\ imageRequest' = IF active THEN imageRequest ELSE NoRequest

RemoveAt(seq, i) == SubSeq(seq, 1, i - 1) \o SubSeq(seq, i + 1, Len(seq))

\* -------------------------------------------------------------- page.tsx UI
toggleFeedbackMode ==
  /\ feedbackMode' = ~feedbackMode
  /\ imageMode' = IF ~feedbackMode THEN FALSE ELSE imageMode
  /\ UNCHANGED << markdown, version, post, feedbackItems, pendingMarkdown,
                  preRegenerationMarkdown, regen, dbVersions, dbPost, srv, sent,
                  rd, accepts, saveTimer, nItems, nEdits, nBatches,
                  nSaves, nextVersionId >>
  /\ PreviewEffect(selection)
  /\ UNCHANGED lastAlert
  /\ UNCHANGED call

toggleImageMode ==
  /\ imageMode \/ (nEdits < MaxEdits /\ Ops < MaxOps)   \* entered only to insert
  /\ imageMode' = ~imageMode
  /\ feedbackMode' = IF ~imageMode THEN FALSE ELSE feedbackMode
  /\ UNCHANGED << markdown, version, post, feedbackItems, pendingMarkdown,
                  preRegenerationMarkdown, regen, dbVersions, dbPost, srv, sent,
                  rd, accepts, saveTimer, nItems, nEdits, nBatches,
                  nSaves, nextVersionId, lastAlert >>
  /\ PreviewEffect(selection)
  /\ UNCHANGED call

\* values the textarea can report after one keystroke: a character typed at
\* the start of the text, or typed over the whole text when all is selected
EditValues(t) == { << c >> \o t : c \in EditChars } \cup { << c >> : c \in EditChars }

\* textarea onChange={(e) => !pendingMarkdown && setMarkdown(e.target.value)}
onChange(value) ==
  /\ nEdits < MaxEdits
  /\ Ops < MaxOps
  /\ ~TruthyStr(pendingMarkdown)
  /\ markdown' = value
  /\ nEdits' = nEdits + 1
  /\ UNCHANGED << version, post, feedbackMode, feedbackItems, pendingMarkdown,
                  preRegenerationMarkdown, selection, regen, dbVersions, dbPost,
                  srv, sent, rd, accepts, nItems, nBatches, nSaves, nextVersionId >>
  /\ AutoSaveEffect
  /\ UNCHANGED lastAlert
  /\ UNCHANGED << imageMode, imageRequest >>
  /\ UNCHANGED call

\* sidebar "x" button, rendered only while !isRegenerating
removeFeedback(i) ==
  /\ feedbackMode
  /\ ~regen.isRegenerating
  /\ i \in 1 .. Len(feedbackItems)
  /\ feedbackItems' = RemoveAt(feedbackItems, i)
  /\ UNCHANGED << markdown, version, post, feedbackMode, pendingMarkdown,
                  preRegenerationMarkdown, selection, regen, dbVersions, dbPost,
                  srv, sent, rd, accepts, saveTimer, nItems, nEdits,
                  nBatches, nSaves, nextVersionId >>
  /\ UNCHANGED lastAlert
  /\ UNCHANGED << imageMode, imageRequest >>
  /\ UNCHANGED call

\* ---------------------------------------------------------- PreviewPane.tsx
\* content prop of the pane: pendingMarkdown || markdown
PreviewContent == IF TruthyStr(pendingMarkdown) THEN pendingMarkdown ELSE markdown

\* the Selection built by handleMouseUp for a browser selection [from, to)
\* of the rendered text
MakeSelection(rendered, from, to) ==
  LET selectedText == Trim(Slice(rendered, from, to))
      startOffset  == from             \* preSelectionRange.toString().length
  IN  [ text |-> selectedText, startOffset |-> startOffset,
        endOffset |-> startOffset + Len(selectedText) ]

\* insertOffset of the image branch of handleMouseUp: the word search runs
\* for i < content.length - 50, so for a content of at most 50 characters it
\* finds nothing and the offset falls back to the end of the content
ImageInsertOffset(content) == Len(content)

handleMouseUp(from, to) ==
  /\ \/ PreviewFeedbackMode(feedbackMode, pendingMarkdown)
     \/ PreviewImageMode(imageMode, pendingMarkdown)
  /\ Ops < MaxOps
  /\ 0 <= from /\ from < to /\ to <= Len(Render(PreviewContent))
  /\ Len(Trim(Slice(Render(PreviewContent), from, to))) # 0
  /\ IF PreviewImageMode(imageMode, pendingMarkdown)
     THEN /\ nEdits < MaxEdits
          /\ imageRequest' = ImageInsertOffset(PreviewContent)
          /\ UNCHANGED selection
     ELSE /\ nItems < MaxQueue
          /\ selection' = MakeSelection(Render(PreviewContent), from, to)
          /\ UNCHANGED imageRequest
  /\ UNCHANGED << markdown, version, post, feedbackMode, feedbackItems,
                  pendingMarkdown, preRegenerationMarkdown, regen, dbVersions,
                  dbPost, srv, sent, rd, accepts, saveTimer, nItems,
                  nEdits, nBatches, nSaves, nextVersionId, lastAlert, imageMode >>
  /\ UNCHANGED call
  /\ UNCHANGED call

\* the FeedbackItem built by handleSubmitFeedback
MakeFeedbackItem(id, sel) ==
  [ id |-> id, type |-> "text", startOffset |-> sel.startOffset,
    endOffset |-> sel.endOffset, selectedText |-> sel.text ]

\* page.tsx onAddFeedback={(item) => setFeedbackItems([...feedbackItems, item])}
onAddFeedback(queue, item) == Append(queue, item)

handleSubmitFeedback ==
  /\ selection # NoSelection
  /\ nItems < MaxQueue
  /\ Ops < MaxOps
  /\ feedbackItems' = onAddFeedback(feedbackItems, MakeFeedbackItem(nItems + 1, selection))
  /\ nItems' = nItems + 1
  /\ selection' = NoSelection
  /\ UNCHANGED << markdown, version, post, feedbackMode, pendingMarkdown,
                  preRegenerationMarkdown, regen, dbVersions, dbPost, srv, sent,
                  rd, accepts, saveTimer, nEdits, nBatches, nSaves, nextVersionId >>
  /\ UNCHANGED lastAlert
  /\ UNCHANGED << imageMode, imageRequest >>
  /\ UNCHANGED call

handleCancelFeedback ==
  /\ selection # NoSelection
  /\ selection' = NoSelection
  /\ UNCHANGED << markdown, version, post, feedbackMode, feedbackItems,
                  pendingMarkdown, preRegenerationMarkdown, regen, dbVersions,
                  dbPost, srv, sent, rd, accepts, saveTimer, nItems,
                  nEdits, nBatches, nSaves, nextVersionId >>
  /\ UNCHANGED lastAlert
  /\ UNCHANGED << imageMode, imageRequest >>
  /\ UNCHANGED call


\* markdown-utils.ts insertImageAtOffset: the image goes before the line that
\* holds the clamped offset
RECURSIVE StartOfLine(_, _)
StartOfLine(md, i) ==
  IF i > 0 /\ md[i] # "\n" THEN StartOfLine(md, i - 1) ELSE i

\* variant: the image goes where the offset points, inside the line
insertImageAtOffset_MidLine(md, offset, imageMarkdown) ==
  LET insertOffset == Max(0, Min(offset, Len(md)))
      insertion    == (IF insertOffset > 0 THEN << "\n" >> ELSE << >>)
                        \o imageMarkdown \o << "\n", "\n" >>
  IN  Slice(md, 0, insertOffset) \o insertion \o SliceFrom(md, insertOffset)

insertImageAtOffset(md, offset, imageMarkdown) ==
  LET insertOffset == Max(0, Min(offset, Len(md)))
      startOfLine  == StartOfLine(md, insertOffset)
      insertion    == (IF startOfLine > 0 THEN << "\n" >> ELSE << >>)
                        \o imageMarkdown \o << "\n", "\n" >>
  IN  Slice(md, 0, startOfLine) \o insertion \o SliceFrom(md, startOfLine)

\* the popover's onInsert: PreviewPane handleInsertImage, which calls the
\* page's handleInsertImage and closes the popover
handleInsertImage ==
  /\ imageRequest # NoRequest
  /\ nEdits < MaxEdits
  /\ Ops < MaxOps
  /\ markdown' = insertImageAtOffset(markdown, imageRequest, ImageMarkdown)
  /\ imageRequest' = NoRequest
  /\ nEdits' = nEdits + 1
  /\ UNCHANGED << version, post, feedbackMode, feedbackItems, pendingMarkdown,
                  preRegenerationMarkdown, selection, regen, dbVersions, dbPost,
                  srv, sent, rd, accepts, nItems, nBatches, nSaves,
                  nextVersionId, lastAlert, imageMode >>
  /\ AutoSaveEffect
  /\ UNCHANGED call

handleCancelImage ==
  /\ imageRequest # NoRequest
  /\ imageRequest' = NoRequest
  /\ UNCHANGED << markdown, version, post, feedbackMode, feedbackItems,
                  pendingMarkdown, preRegenerationMarkdown, selection, regen,
                  dbVersions, dbPost, srv, sent, rd, accepts, saveTimer, nItems,
                  nEdits, nBatches, nSaves, nextVersionId, lastAlert, imageMode >>
  /\ UNCHANGED call

\* ------------------------------------------------- useRegenerate (the hook)
ItemIds(items) == { items[i].id : i \in 1 .. Len(items) }

\* new Map(feedbackItems.map((item) => [item.id, {status: 'pending', text: ''}]))
InitialProgress(items) ==
  [ id \in ItemIds(items) |-> [ status |-> "pending", text |-> << >> ] ]

\* the request body is rejected with status 400 when !markdown
BadRequest(md, items) == ~TruthyStr(md)

\* page.tsx handleRegenerateAll -> regenerate(markdown, feedbackItems, onComplete)
\* up to the point where the route has started its stream; a 400 response
\* makes the hook throw and reset its state
handleRegenerateAll ==
  /\ feedbackMode                          \* the button is in the sidebar
  /\ Len(feedbackItems) # 0
  /\ ~regen.isRegenerating                 \* disabled={isRegenerating}
  /\ nBatches < MaxBatches
  /\ Ops < MaxOps
  /\ nBatches' = nBatches + 1
  /\ preRegenerationMarkdown' = markdown
  /\ \E ok \in BOOLEAN :              \* response.ok; false for a 500 response
       IF ~ok \/ BadRequest(markdown, feedbackItems)
       THEN \* throw new Error('Regeneration failed'): the outer catch block
            /\ regen' = IdleRegen
            /\ srv' = [ IdleSrv EXCEPT !.feedbackItems = feedbackItems ]
            /\ lastAlert' = AlertText
       ELSE /\ regen' = [ isRegenerating |-> TRUE,
                          progress |-> InitialProgress(feedbackItems) ]
            /\ srv' = [ IdleSrv EXCEPT !.pc = "loop",
                                       !.markdown = markdown,
                                       !.feedbackItems = feedbackItems,
                                       !.items = feedbackItems,
                                       !.currentMarkdown = markdown ]
            /\ lastAlert' = lastAlert
  /\ sent' = << >>
  /\ rd' = 0
  /\ UNCHANGED << markdown, version, post, feedbackMode, feedbackItems,
                  pendingMarkdown, selection, dbVersions, dbPost, accepts,
                  saveTimer, nItems, nEdits, nSaves,
                  nextVersionId >>
  /\ UNCHANGED << imageMode, imageRequest >>
  /\ UNCHANGED call

\* ------------------------------------------------ /api/regenerate/route.ts
\* if (item.type !== 'text' || !item.startOffset || !item.endOffset) continue
Skipped(item) ==
  item.type # "text" \/ ~TruthyNum(item.startOffset) \/ ~TruthyNum(item.endOffset)

SrvFrame == << markdown, version, post, feedbackMode, feedbackItems, lastAlert,
               imageMode, imageRequest, call,
               pendingMarkdown, preRegenerationMarkdown, selection, regen,
               dbVersions, dbPost, rd, accepts, saveTimer, nItems,
               nEdits, nBatches, nSaves, nextVersionId >>

\* the items the loop passes over before it reaches one it processes
RECURSIVE DropSkipped(_)
DropSkipped(items) ==
  IF items # << >> /\ Skipped(Head(items)) THEN DropSkipped(Tail(items)) ELSE items

\* variant: the context window is cut from the text of the request body
SrvLoop_ContextFromBase(s, out) ==
  LET items == DropSkipped(s.items)
  IN  IF items = << >>
      THEN /\ srv' = [ s EXCEPT !.pc = "closed", !.items = << >> ]
           /\ sent' = Append(out, [ type |-> "done", newMarkdown |-> s.currentMarkdown ])
      ELSE LET item == Head(items)
           IN  /\ srv' = [ s EXCEPT
                            !.pc = "streaming",
                            !.items = Tail(items),
                            !.item = item,
                            !.regeneratedText = << >>,
                            !.nFrags = 0,
                            !.context = getContextAround(s.markdown,
                                          item.startOffset, item.endOffset, ContextLength) ]
               /\ sent' = Append(out, [ type |-> "start", itemId |-> item.id ])

\* the loop from its head to the next await: either the start event of the
\* next processed item, its context window and the call of the collaborator,
\* or, with no item left, the done event and close
SrvLoop(s, out) ==
  LET items == DropSkipped(s.items)
  IN  IF items = << >>
      THEN /\ srv' = [ s EXCEPT !.pc = "closed", !.items = << >> ]
           /\ sent' = Append(out, [ type |-> "done", newMarkdown |-> s.currentMarkdown ])
      ELSE LET item == Head(items)
           IN  /\ srv' = [ s EXCEPT
                            !.pc = "streaming",
                            !.items = Tail(items),
                            !.item = item,
                            !.regeneratedText = << >>,
                            !.nFrags = 0,
                            !.context = getContextAround(s.currentMarkdown,
                                          item.startOffset, item.endOffset, ContextLength) ]
               /\ sent' = Append(out, [ type |-> "start", itemId |-> item.id ])

\* start(controller) is called with the request body
SrvBegin ==
  /\ srv.pc = "loop"
  /\ Len(sent) - rd < MaxUnread
  /\ SrvLoop(srv, sent)
  /\ UNCHANGED SrvFrame

\* for await (const chunk of result.textStream)
SrvChunk(chunk) ==
  /\ srv.pc = "streaming"
  /\ srv.nFrags < MaxFrags
  /\ Len(sent) - rd < MaxUnread
  /\ srv' = [ srv EXCEPT !.regeneratedText = srv.regeneratedText \o chunk,
                         !.nFrags = srv.nFrags + 1 ]
  /\ sent' = Append(sent, [ type |-> "content", itemId |-> srv.item.id, text |-> chunk ])
  /\ UNCHANGED SrvFrame

\* variant: the loop moves on (next start event, or done) before the complete
\* event of the item just spliced is sent
SrvComplete_StartsNextFirst ==
  /\ srv.pc = "streaming"
  /\ Len(sent) - rd < MaxUnread
  /\ LET s == [ srv EXCEPT !.currentMarkdown =
                  replaceSection(srv.currentMarkdown, srv.item.startOffset,
                                 srv.item.endOffset, srv.regeneratedText) ]
         complete == [ type |-> "complete", itemId |-> srv.item.id,
                       regeneratedText |-> srv.regeneratedText ]
         items == DropSkipped(s.items)
     IN  IF items = << >>
         THEN /\ srv' = [ s EXCEPT !.pc = "closed", !.items = << >> ]
              /\ sent' = sent \o << [ type |-> "done", newMarkdown |-> s.currentMarkdown ],
                                    complete >>
         ELSE /\ srv' = [ s EXCEPT
                            !.pc = "streaming",
                            !.items = Tail(items),
                            !.item = Head(items),
                            !.regeneratedText = << >>,
                            !.nFrags = 0,
                            !.context = getContextAround(s.currentMarkdown,
                                          Head(items).startOffset,
                                          Head(items).endOffset, ContextLength) ]
              /\ sent' = sent \o << [ type |-> "start", itemId |-> Head(items).id ],
                                    complete >>
  /\ UNCHANGED SrvFrame

\* the text stream ended: splice, complete event, and on to the next item
SrvComplete ==
  /\ srv.pc = "streaming"
  /\ Len(sent) - rd < MaxUnread
  /\ SrvLoop([ srv EXCEPT !.currentMarkdown =
                  replaceSection(srv.currentMarkdown, srv.item.startOffset,
                                 srv.item.endOffset, srv.regeneratedText) ],
             Append(sent, [ type |-> "complete", itemId |-> srv.item.id,
                            regeneratedText |-> srv.regeneratedText ]))
  /\ UNCHANGED SrvFrame

\* variant: the catch block reports the error and then still sends the text
\* built so far as the result
SrvError_ThenDone ==
  /\ srv.pc = "streaming"
  /\ Len(sent) - rd < MaxUnread
  /\ srv' = [ srv EXCEPT !.pc = "closed" ]
  /\ sent' = Append(Append(sent, [ type |-> "error", message |-> "upstream" ]),
                    [ type |-> "done", newMarkdown |-> srv.currentMarkdown ])
  /\ UNCHANGED SrvFrame

\* variant: the try block sits inside the loop, so the error of one item is
\* reported and the loop goes on with the next item
SrvError_ContinuesLoop ==
  /\ srv.pc = "streaming"
  /\ Len(sent) - rd < MaxUnread
  /\ SrvLoop(srv, Append(sent, [ type |-> "error", message |-> "upstream" ]))
  /\ UNCHANGED SrvFrame


\* the collaborator throws: catch block, error event, close
SrvError ==
  /\ srv.pc = "streaming"
  /\ Len(sent) - rd < MaxUnread
  /\ srv' = [ srv EXCEPT !.pc = "closed" ]
  /\ sent' = Append(sent, [ type |-> "error", message |-> "upstream" ])
  /\ UNCHANGED SrvFrame

\* ------------------------------------------ useRegenerate: the reading loop
\* progress after one parsed event
\* variant: a content event writes a fresh entry, status 'pending' again
ProgressAfter_ContentResetsStatus(progress, data) ==
  CASE data.type = "start" ->
         (data.itemId :> [ status |-> "processing", text |-> << >> ]) @@ progress
    [] data.type = "content" ->
         IF data.itemId \in DOMAIN progress
         THEN [ progress EXCEPT ![data.itemId] =
                  [ status |-> "pending", text |-> @.text \o data.text ] ]
         ELSE progress
    [] data.type = "complete" ->
         (data.itemId :> [ status |-> "completed", text |-> data.regeneratedText ]) @@ progress
    [] OTHER -> progress

\* variant: a content event stores its fragment in place of the text so far
ProgressAfter_KeepsLastFragment(progress, data) ==
  CASE data.type = "start" ->
         (data.itemId :> [ status |-> "processing", text |-> << >> ]) @@ progress
    [] data.type = "content" ->
         IF data.itemId \in DOMAIN progress
         THEN [ progress EXCEPT ![data.itemId].text = data.text ]
         ELSE progress
    [] data.type = "complete" ->
         (data.itemId :> [ status |-> "completed", text |-> data.regeneratedText ]) @@ progress
    [] OTHER -> progress

ProgressAfter(progress, data) ==
  CASE data.type = "start" ->
         (data.itemId :> [ status |-> "processing", text |-> << >> ]) @@ progress
    [] data.type = "content" ->
         IF data.itemId \in DOMAIN progress
         THEN [ progress EXCEPT ![data.itemId].text = @ \o data.text ]
         ELSE progress
    [] data.type = "complete" ->
         (data.itemId :> [ status |-> "completed", text |-> data.regeneratedText ]) @@ progress
    [] OTHER -> progress

\* page.tsx: the onComplete callback passed to regenerate by
\* handleRegenerateAll: the candidate is stored, nothing else is touched
\* variant: the result is applied to the document as soon as it arrives
onComplete_AppliesAtOnce(newMarkdown) ==
  /\ pendingMarkdown' = newMarkdown
  /\ markdown' = newMarkdown
  /\ UNCHANGED << version, post, feedbackMode, feedbackItems,
                  dbVersions, dbPost, nextVersionId >>

onComplete(newMarkdown) ==
  /\ pendingMarkdown' = newMarkdown
  /\ UNCHANGED << markdown, version, post, feedbackMode, feedbackItems,
                  dbVersions, dbPost, nextVersionId >>

\* one "data: " line handled by the loop of regenerate; after the last line
\* of a closed stream reader.read() reports done, the loop ends and the
\* request is over
ClientEvent ==
  /\ rd < Len(sent)
  /\ LET data == sent[rd + 1]
     IN  IF data.type = "done"
         THEN /\ onComplete(data.newMarkdown)
              /\ regen' = IdleRegen
         ELSE \* start, content, complete update the progress map; an error
              \* event is thrown and caught inside the loop, which goes on
              /\ regen' = [ regen EXCEPT !.progress = ProgressAfter(regen.progress, data) ]
              /\ UNCHANGED << markdown, version, post, feedbackMode, feedbackItems,
                              pendingMarkdown, dbVersions, dbPost, nextVersionId >>
  /\ IF srv.pc = "closed" /\ rd + 1 = Len(sent)
     THEN /\ srv' = EndedSrv(srv)
          /\ sent' = << >>
          /\ rd' = 0
     ELSE /\ rd' = rd + 1
          /\ UNCHANGED << srv, sent >>
  /\ UNCHANGED << preRegenerationMarkdown, accepts, nItems, nEdits,
                  nBatches, nSaves >>
  /\ UNCHANGED imageMode
  /\ PreviewEffect(selection)
  /\ AutoSaveEffect
  /\ UNCHANGED lastAlert
  /\ UNCHANGED call

\* ------------------------------------------- page.tsx: accept and discard
\* the PostVersion built by handleConfirmChanges
\* variant: the new version keeps the number of the current one
NewVersion_SameNumber(current, content, id) ==
  [ id |-> id, versionNumber |-> current.versionNumber, content |-> content ]

NewVersion(current, content, id) ==
  [ id |-> id, versionNumber |-> current.versionNumber + 1, content |-> content ]

\* handleConfirmChanges up to its first await: guard, setMarkdown, newVersion
handleConfirmChanges ==
  /\ TruthyStr(pendingMarkdown)            \* guard; also shows the banner
  /\ nextVersionId - 2 < MaxAccepts
  /\ Ops < MaxOps
  /\ markdown' = pendingMarkdown
  /\ accepts' = Append(accepts,
        [ pc |-> "createVersion",
          newVersion |-> NewVersion(version, pendingMarkdown, nextVersionId),
          post |-> post,
          markdown |-> markdown ])      \* the text the handler was called with
  /\ nextVersionId' = nextVersionId + 1    \* uuidv4()
  /\ UNCHANGED << version, post, feedbackMode, feedbackItems, pendingMarkdown,
                  preRegenerationMarkdown, selection, regen, dbVersions, dbPost,
                  srv, sent, rd, nItems, nEdits, nBatches, nSaves >>
  /\ AutoSaveEffect
  /\ UNCHANGED lastAlert
  /\ UNCHANGED << imageMode, imageRequest >>
  /\ UNCHANGED call

\* handleConfirmChanges called without a candidate: if (!pendingMarkdown ...)
\* return; the call is recorded, nothing is thrown
handleConfirmChangesNoCandidate ==
  /\ ~TruthyStr(pendingMarkdown)
  /\ call.fn = "none"
  /\ Ops < MaxOps
  /\ call' = [ call EXCEPT !.fn = "handleConfirmChanges", !.threw = FALSE ]
  /\ UNCHANGED pageVars

\* await createVersion(newVersion) resolved: db.add('versions', version)
AcceptCreated(i) ==
  /\ i \in 1 .. Len(accepts)
  /\ accepts[i].pc = "createVersion"
  /\ accepts[i].newVersion.id \notin DOMAIN dbVersions
  /\ dbVersions' = (accepts[i].newVersion.id :> accepts[i].newVersion) @@ dbVersions
  /\ accepts' = [ accepts EXCEPT ![i].pc = "updatePost" ]
  /\ UNCHANGED << markdown, version, post, feedbackMode, feedbackItems,
                  pendingMarkdown, preRegenerationMarkdown, selection, regen,
                  dbPost, srv, sent, rd, saveTimer, nItems, nEdits,
                  nBatches, nSaves, nextVersionId >>
  /\ UNCHANGED lastAlert
  /\ UNCHANGED << imageMode, imageRequest >>
  /\ UNCHANGED call

\* await updatePost(...) resolved, then the state updates that end the handler
AcceptFinished(i) ==
  /\ i \in 1 .. Len(accepts)
  /\ accepts[i].pc = "updatePost"
  /\ dbPost' = [ accepts[i].post EXCEPT !.currentVersionId = accepts[i].newVersion.id ]
  /\ version' = accepts[i].newVersion
  /\ feedbackItems' = << >>
  /\ feedbackMode' = FALSE
  /\ pendingMarkdown' = NULL
  /\ preRegenerationMarkdown' = NULL
  /\ accepts' = RemoveAt(accepts, i)
  /\ UNCHANGED << markdown, post, regen, dbVersions, srv, sent, rd, 
                  nItems, nEdits, nBatches, nSaves, nextVersionId >>
  /\ UNCHANGED imageMode
  /\ PreviewEffect(selection)
  /\ AutoSaveEffect
  /\ UNCHANGED lastAlert
  /\ UNCHANGED call

\* createVersion or updatePost rejects: the handler ends at that await
AcceptFailed(i) ==
  /\ i \in 1 .. Len(accepts)
  /\ accepts' = RemoveAt(accepts, i)
  /\ UNCHANGED << markdown, version, post, feedbackMode, feedbackItems,
                  pendingMarkdown, preRegenerationMarkdown, selection, regen,
                  dbVersions, dbPost, srv, sent, rd, saveTimer, nItems,
                  nEdits, nBatches, nSaves, nextVersionId >>
  /\ UNCHANGED lastAlert
  /\ UNCHANGED << imageMode, imageRequest >>
  /\ UNCHANGED call

\* variant: the discard handler applies the candidate before dropping it
handleDenyChanges_AppliesCandidate ==
  /\ TruthyStr(pendingMarkdown)
  /\ markdown' = pendingMarkdown
  /\ pendingMarkdown' = NULL
  /\ preRegenerationMarkdown' = NULL
  /\ UNCHANGED << version, post, feedbackMode, feedbackItems, regen,
                  dbVersions, dbPost, srv, sent, rd, accepts, saveTimer,
                  nItems, nEdits, nBatches, nSaves, nextVersionId >>
  /\ UNCHANGED imageMode
  /\ PreviewEffect(selection)
  /\ UNCHANGED lastAlert
  /\ UNCHANGED call

handleDenyChanges ==
  /\ TruthyStr(pendingMarkdown)            \* the banner is shown
  /\ pendingMarkdown' = NULL
  /\ preRegenerationMarkdown' = NULL
  /\ UNCHANGED << markdown, version, post, feedbackMode, feedbackItems, regen,
                  dbVersions, dbPost, srv, sent, rd, accepts, saveTimer, 
                  nItems, nEdits, nBatches, nSaves, nextVersionId >>
  /\ UNCHANGED imageMode
  /\ PreviewEffect(selection)
  /\ UNCHANGED lastAlert
  /\ UNCHANGED call

\* ------------------------------------------------------ page.tsx: auto-save
\* updateVersion: db.put('versions', version), keyed by id
updateVersion(store, v) == (v.id :> v) @@ store

\* the timeout fires and its callback runs to its end: updatedVersion is
\* written over the stored version of the same id, becomes the version state,
\* and the post record is put again from the post state
AutoSave ==
  /\ nSaves < MaxSaves
  /\ Ops < MaxOps
  /\ nSaves' = nSaves + 1
  /\ \E t \in saveTimer :
       LET updatedVersion == [ t.version EXCEPT !.content = t.markdown ]
       IN  /\ dbVersions' = updateVersion(dbVersions, updatedVersion)
           /\ version' = updatedVersion
           /\ dbPost' = t.post
           /\ UNCHANGED << markdown, post >>
           /\ saveTimer' = AutoSaveTimers(saveTimer \ { t })
  /\ UNCHANGED << feedbackMode, feedbackItems, pendingMarkdown,
                  preRegenerationMarkdown, selection, regen, srv, sent, rd,
                  accepts, nItems, nEdits, nBatches, nextVersionId >>
  /\ UNCHANGED lastAlert
  /\ UNCHANGED << imageMode, imageRequest >>
  /\ UNCHANGED call

\* ----------------------------------------------------------- specification
Next ==
  \/ toggleFeedbackMode
  \/ toggleImageMode
  \/ \E value \in EditValues(markdown) : onChange(value)
  \/ \E i \in 1 .. Len(feedbackItems) : removeFeedback(i)
  \/ \E range \in MouseSelections : handleMouseUp(range[1], range[2])
  \/ handleSubmitFeedback
  \/ handleCancelFeedback
  \/ handleInsertImage
  \/ handleCancelImage
  \/ handleRegenerateAll
  \/ SrvBegin
  \/ \E chunk \in Fragments : SrvChunk(chunk)
  \/ SrvComplete
  \/ SrvError
  \/ ClientEvent
  \/ handleConfirmChanges
  \/ handleConfirmChangesNoCandidate
  \/ \E i \in 1 .. Len(accepts) : AcceptCreated(i)
  \/ \E i \in 1 .. Len(accepts) : AcceptFinished(i)
  \/ \E i \in 1 .. Len(accepts) : AcceptFailed(i)
  \/ handleDenyChanges
  \/ AutoSave

Spec == Init /\ [][Next]_vars

\* ------------------------------------------ markdown-utils.ts called alone
\* texts over a letter and the newline, of length 0 .. MaxTextLen
RECURSIVE TextsOfLen(_)
TextsOfLen(n) ==
  IF n = 0 THEN { << >> }
  ELSE { << c >> \o t : c \in { "a", "\n" }, t \in TextsOfLen(n - 1) }

UtilTexts == UNION { TextsOfLen(n) : n \in 0 .. MaxTextLen }

\* offsets and line numbers, from below 0 to past the end
UtilOffsets == -1 .. MaxTextLen + 1

UtilContents == { << >>, << "X", "Y" >> }

\* queue entries: one without offsets and three with
NoOffsets == [ startOffset |-> Undefined, endOffset |-> Undefined ]

UtilItems == { NoOffsets,
               [ startOffset |-> 0, endOffset |-> 1 ],
               [ startOffset |-> 2, endOffset |-> 3 ],
               [ startOffset |-> 3, endOffset |-> 4 ] }

RECURSIVE ListsOfLen(_)
ListsOfLen(n) ==
  IF n = 0 THEN { << >> }
  ELSE { << item >> \o list : item \in UtilItems, list \in ListsOfLen(n - 1) }

UtilLists == UNION { ListsOfLen(n) : n \in 0 .. MaxListLen }

UtilThresholds == { 0, 1 }

\* the helpers are called on any text with any numbers, or on any list
UtilInit ==
  /\ PageInit
  /\ \/ \E text \in UtilTexts, startOffset, endOffset, lineNumber \in UtilOffsets,
           newContent \in UtilContents :
          call = [ NoCall EXCEPT !.text = text, !.startOffset = startOffset,
                                 !.endOffset = endOffset, !.lineNumber = lineNumber,
                                 !.newContent = newContent ]
     \/ \E items \in UtilLists, threshold \in UtilThresholds :
          call = [ NoCall EXCEPT !.items = items, !.threshold = threshold ]

\* String.prototype.slice and + never throw: the call returns a string
CallReplaceSection ==
  /\ call.fn = "none"
  /\ call' = [ call EXCEPT
                 !.fn = "replaceSection",
                 !.outText = replaceSection(call.text, call.startOffset,
                                            call.endOffset, call.newContent),
                 !.threw = FALSE ]
  /\ UNCHANGED pageVars

CallOffsetToLine ==
  /\ call.fn = "none"
  /\ call' = [ call EXCEPT !.fn = "offsetToLine",
                           !.outNum = offsetToLine(call.text, call.startOffset) ]
  /\ UNCHANGED pageVars

CallLineToOffset ==
  /\ call.fn = "none"
  /\ call' = [ call EXCEPT !.fn = "lineToOffset",
                           !.outNum = lineToOffset(call.text, call.lineNumber) ]
  /\ UNCHANGED pageVars

\* lineToOffset(text, offsetToLine(text, offset))
CallRoundTrip ==
  /\ call.fn = "none"
  /\ call' = [ call EXCEPT
                 !.fn = "roundTrip",
                 !.outNum = lineToOffset(call.text,
                                         offsetToLine(call.text, call.startOffset)) ]
  /\ UNCHANGED pageVars

\* getContextAround(text, startOffset, endOffset, contextLength), the third
\* number of the call being the contextLength
CallGetContextAround ==
  /\ call.fn = "none"
  /\ LET context == getContextAround(call.text, call.startOffset, call.endOffset,
                                     call.lineNumber)
     IN  call' = [ call EXCEPT !.fn = "getContextAround",
                               !.outText = context.before,
                               !.outAfter = context.after,
                               !.threw = FALSE ]
  /\ UNCHANGED pageVars

\* insertImageAtOffset(text, startOffset, newContent)
CallInsertImageAtOffset ==
  /\ call.fn = "none"
  /\ call' = [ call EXCEPT
                 !.fn = "insertImageAtOffset",
                 !.outText = insertImageAtOffset(call.text, call.startOffset,
                                                 call.newContent) ]
  /\ UNCHANGED pageVars

CallGroupFeedbackByProximity ==
  /\ call.fn = "none"
  /\ LET result == groupFeedbackByProximity(call.items, call.threshold)
     IN  call' = [ call EXCEPT !.fn = "groupFeedbackByProximity",
                               !.outGroups = result.groups,
                               !.threw = result.threw ]
  /\ UNCHANGED pageVars

UtilNext ==
  \/ CallReplaceSection
  \/ CallOffsetToLine
  \/ CallLineToOffset
  \/ CallRoundTrip
  \/ CallGetContextAround
  \/ CallInsertImageAtOffset
  \/ CallGroupFeedbackByProximity

SpecUtils == UtilInit /\ [][UtilNext]_vars

\* ------------------------------------- the route on one batch: SpecRoute
\* The page right after handleRegenerateAll has posted a queue of one or
\* two requests, then only the stream and the loop that reads it; the
\* collaborator may split a replacement into several fragments.
RouteFragments == { <<"Y">>, <<"Y", "Y">> }

\* the items a user can queue on doc, in the order of their ids
RouteItems(doc, id) ==
  { MakeFeedbackItem(id, MakeSelection(Render(doc), sel[1], sel[2])) :
      sel \in { m \in MouseSelections :
                  /\ m[2] <= Len(Render(doc))
                  /\ Len(Trim(Slice(Render(doc), m[1], m[2]))) # 0 } }

RouteQueues(doc) ==
  { << a >> : a \in RouteItems(doc, 1) }
    \cup { << a, b >> : a \in RouteItems(doc, 1), b \in RouteItems(doc, 2) }

RouteInit ==
  \E doc \in DocTexts :
    \E queue \in RouteQueues(doc) :
      LET v == [ id |-> 1, versionNumber |-> FirstVersionNumber, content |-> doc ]
      IN  /\ markdown = doc
          /\ version = v
          /\ post = [ id |-> "post", currentVersionId |-> 1 ]
          /\ dbVersions = (1 :> v)
          /\ dbPost = [ id |-> "post", currentVersionId |-> 1 ]
          /\ feedbackMode = TRUE
          /\ feedbackItems = queue
          /\ pendingMarkdown = NULL
          /\ preRegenerationMarkdown = doc
          /\ selection = NoSelection
          /\ regen = [ isRegenerating |-> TRUE, progress |-> InitialProgress(queue) ]
          /\ srv = [ IdleSrv EXCEPT !.pc = "loop",
                                    !.markdown = doc,
                                    !.feedbackItems = queue,
                                    !.items = queue,
                                    !.currentMarkdown = doc ]
          /\ sent = << >>
          /\ rd = 0
          /\ accepts = << >>
          /\ saveTimer = { }
          /\ lastAlert = NoAlert
          /\ imageMode = FALSE
          /\ imageRequest = NoRequest
          /\ nItems = Len(queue) /\ nEdits = 0 /\ nBatches = 1 /\ nSaves = 0
          /\ nextVersionId = 2
          /\ call = NoCall

\* variant: regeneratedText = chunk, the fragments before the last are lost
RouteChunk_KeepsLastFragment(chunk) ==
  /\ srv.pc = "streaming"
  /\ srv.nFrags < MaxRouteFrags
  /\ Len(sent) - rd < MaxUnread
  /\ srv' = [ srv EXCEPT !.regeneratedText = chunk,
                         !.nFrags = srv.nFrags + 1 ]
  /\ sent' = Append(sent, [ type |-> "content", itemId |-> srv.item.id, text |-> chunk ])
  /\ UNCHANGED SrvFrame

\* for await (const chunk of result.textStream): regeneratedText += chunk,
\* and one content event per fragment
RouteChunk(chunk) ==
  /\ srv.pc = "streaming"
  /\ srv.nFrags < MaxRouteFrags
  /\ Len(sent) - rd < MaxUnread
  /\ srv' = [ srv EXCEPT !.regeneratedText = srv.regeneratedText \o chunk,
                         !.nFrags = srv.nFrags + 1 ]
  /\ sent' = Append(sent, [ type |-> "content", itemId |-> srv.item.id, text |-> chunk ])
  /\ UNCHANGED SrvFrame

RouteNext ==
  \/ SrvBegin
  \/ \E chunk \in RouteFragments : RouteChunk(chunk)
  \/ SrvComplete
  \/ SrvError
  \/ ClientEvent

SpecRoute == RouteInit /\ [][RouteNext]_vars


\* --------------------------- the editor and its auto-save: SpecAutoSave
\* The loaded page with nothing but typing and the auto-save timeout.
\* textarea onChange, for a run of up to MaxTyped edits
Typing(value) ==
  /\ nEdits < MaxTyped
  /\ ~TruthyStr(pendingMarkdown)
  /\ markdown' = value
  /\ nEdits' = nEdits + 1
  /\ UNCHANGED << version, post, feedbackMode, feedbackItems, pendingMarkdown,
                  preRegenerationMarkdown, selection, regen, dbVersions, dbPost,
                  srv, sent, rd, accepts, nItems, nBatches, nSaves, nextVersionId >>
  /\ AutoSaveEffect
  /\ UNCHANGED << lastAlert, imageMode, imageRequest, call >>

AutoSaveNext ==
  \/ \E value \in EditValues(markdown) : Typing(value)
  \/ AutoSave

SpecAutoSave == Init /\ [][AutoSaveNext]_vars


\* the route runs its loop to the end and the hook keeps reading until the
\* stream is closed: as long as a step of the stream is possible one is taken
SpecRouteLive == SpecRoute /\ WF_vars(RouteNext)

\* ------------------------- the stream read in byte chunks: SpecReads
\* The route enqueues each event as one frame "data: <json>\n\n"; a read of
\* the hook returns the bytes that have arrived, which may end anywhere in a
\* frame. The json text of an event is kept abstract: JSON.parse succeeds on
\* the whole text and throws on any other part of the frame.
DataPrefix == << "d", "a", "t", "a", ":", " " >>

JsonText == << "{", "}" >>

Frame == DataPrefix \o JsonText \o << "\n", "\n" >>

\* where the read that holds the beginning of a frame can end
ReadBoundaries == 1 .. Len(Frame)

\* line.startsWith('data: ')
StartsWithData(line) ==
  Len(line) >= Len(DataPrefix) /\ SubSeq(line, 1, Len(DataPrefix)) = DataPrefix

\* the lines of a decoded chunk that the loop parses into an event:
\* chunk.split('\n'), startsWith('data: '), JSON.parse(line.slice(6))
ParsedLines(chunk) ==
  { i \in 1 .. Len(SplitLines(chunk)) :
      /\ StartsWithData(SplitLines(chunk)[i])
      /\ SliceFrom(SplitLines(chunk)[i], Len(DataPrefix)) = JsonText }

\* no line of either read parses: JSON.parse throws inside the inner try,
\* or the line does not start with 'data: '; the event is passed over
ClientSkip ==
  /\ rd < Len(sent)
  /\ IF srv.pc = "closed" /\ rd + 1 = Len(sent)
     THEN /\ srv' = EndedSrv(srv)
          /\ sent' = << >>
          /\ rd' = 0
     ELSE /\ rd' = rd + 1
          /\ UNCHANGED << srv, sent >>
  /\ UNCHANGED << markdown, version, post, feedbackMode, feedbackItems,
                  pendingMarkdown, preRegenerationMarkdown, selection, regen,
                  dbVersions, dbPost, accepts, saveTimer, lastAlert, imageMode,
                  imageRequest, call, nItems, nEdits, nBatches, nSaves,
                  nextVersionId >>

\* the next frame arrives in two reads, the first ending after k characters
\* of it (k = Len(Frame): in one read)
ClientRead(k) ==
  LET first  == Slice(Frame, 0, k)
      second == SliceFrom(Frame, k)
  IN  IF ParsedLines(first) # { } \/ ParsedLines(second) # { }
      THEN ClientEvent
      ELSE ClientSkip

ReadsNext ==
  \/ SrvBegin
  \/ \E chunk \in RouteFragments : RouteChunk(chunk)
  \/ SrvComplete
  \/ SrvError
  \/ \E k \in ReadBoundaries : ClientRead(k)

SpecReads == RouteInit /\ [][ReadsNext]_vars


\* ---------------------------------------------------------- notions of the
\* specification the claims are stated with
\* text[start:end] and replaceSpan of the specification, for valid spans
TextSpan(text, start, end) == SubSeq(text, start + 1, end)

SpecReplaceSpan(text, start, end, replacement) ==
  SubSeq(text, 1, start) \o replacement \o SubSeq(text, end + 1, Len(text))

ValidSpan(text, r) ==
  0 <= r.startOffset /\ r.startOffset <= r.endOffset /\ r.endOffset <= Len(text)

\* half-open interval overlap test
Overlap(a, b) == a.startOffset < b.endOffset /\ b.startOffset < a.endOffset

NonOverlapping(items) ==
  \A i, j \in 1 .. Len(items) : i < j => ~Overlap(items[i], items[j])

\* the events of a given type on the response stream
EventsOfType(type) == { i \in 1 .. Len(sent) : sent[i].type = type }

\* the replacement text the stream reports for a request
ResolvedText(id) ==
  LET i == CHOOSE k \in EventsOfType("complete") : sent[k].itemId = id
  IN  sent[i].regeneratedText

Resolved(id) == \E k \in EventsOfType("complete") : sent[k].itemId = id

\* base with the span of every request of reqs replaced by its replacement:
\* spans are replaced from the last to the first, so that every offset is
\* used on text that is still as in base
RECURSIVE SpliceAll(_, _)
SpliceAll(base, reqs) ==
  IF reqs = { } THEN base
  ELSE LET last == CHOOSE r \in reqs : \A q \in reqs : q.startOffset <= r.startOffset
       IN  SpliceAll(SpecReplaceSpan(base, last.startOffset, last.endOffset,
                                     ResolvedText(last.id)),
                     reqs \ { last })

BatchRequests == { srv.feedbackItems[i] : i \in 1 .. Len(srv.feedbackItems) }

BatchCompleted == sent # << >> /\ sent[Len(sent)].type = "done"

\* ------------------------------------------------------------------ claims
\* C1: for a batch of pairwise non-overlapping span-replace requests with
\* valid spans that all resolve, the candidate text carried by the done event
\* is the base text with every span replaced by the request's replacement
\* text, every other character kept in order.
C1_CandidateIsBaseWithSpansReplaced ==
  ( /\ BatchCompleted
    /\ \A r \in BatchRequests : ValidSpan(srv.markdown, r) /\ Resolved(r.id)
    /\ NonOverlapping(srv.feedbackItems) )
  => sent[Len(sent)].newMarkdown = SpliceAll(srv.markdown, BatchRequests)

\* C2: a batch in which a request fails stages nothing: a stream that carries
\* an error event never carries a done event, and no step of the route or of
\* the reading loop other than the handling of a done event changes the
\* document text, the candidate, the current version or the stored data.
BatchFailed == EventsOfType("error") # { }

StreamStep == << srv, sent, rd >>' # << srv, sent, rd >>

HandlesDone == rd < Len(sent) /\ sent[rd + 1].type = "done"

C2_FailedBatchStagesNothing ==
  /\ [](BatchFailed => EventsOfType("done") = { })
  /\ [][ (StreamStep /\ ~HandlesDone)
         => /\ markdown' = markdown
            /\ pendingMarkdown' = pendingMarkdown
            /\ version' = version
            /\ dbVersions' = dbVersions
            /\ dbPost' = dbPost ]_vars

\* the error event of a batch whose first request had resolved was handled:
\* the request is over, nothing is staged, the text is the base text
C2_Witness ==
  /\ regen.isRegenerating
  /\ srv.pc = "idle"
  /\ sent = << >>
  /\ \E id \in DOMAIN regen.progress : regen.progress[id].status = "completed"
  /\ pendingMarkdown = NULL
  /\ markdown = preRegenerationMarkdown

AcceptInvoked == Len(accepts') = Len(accepts) + 1

C4_AcceptCreatesNextVersion ==
  /\ [][ AcceptInvoked
         => LET nv == accepts'[Len(accepts')].newVersion
            IN  /\ nv.versionNumber = version.versionNumber + 1
                /\ nv.content = pendingMarkdown
                /\ nv.id \notin DOMAIN dbVersions
                /\ markdown' = pendingMarkdown
                /\ dbVersions' = dbVersions ]_vars
  /\ [][ \A i \in 1 .. Len(accepts) :
           ( /\ accepts[i].pc = "createVersion"
             /\ Len(accepts') = Len(accepts)
             /\ accepts'[i].pc = "updatePost" )
           => LET nv == accepts[i].newVersion
              IN  /\ nv.id \notin DOMAIN dbVersions
                  /\ DOMAIN dbVersions' = DOMAIN dbVersions \cup { nv.id }
                  /\ dbVersions'[nv.id] = nv
                  /\ \A k \in DOMAIN dbVersions : dbVersions'[k] = dbVersions[k] ]_vars
  /\ [][ \A i \in 1 .. Len(accepts) :
           ( /\ accepts[i].pc = "updatePost"
             /\ accepts' = RemoveAt(accepts, i)
             /\ version' # version )
           => LET nv == accepts[i].newVersion
              IN  /\ version' = nv
                  /\ dbVersions[nv.id] = nv
                  /\ dbVersions' = dbVersions
                  /\ dbPost'.currentVersionId = nv.id
                  /\ feedbackItems' = << >>
                  /\ pendingMarkdown' = NULL ]_vars

\* one accept ran to its end: version 2 holds the text and is current
C4_Witness ==
  /\ accepts = << >>
  /\ nextVersionId = 3
  /\ version.versionNumber = FirstVersionNumber + 1
  /\ version.id \in DOMAIN dbVersions
  /\ dbVersions[version.id].content = markdown
  /\ markdown # preRegenerationMarkdown
  /\ dbPost.currentVersionId = version.id
  /\ feedbackItems = << >>
  /\ pendingMarkdown = NULL

\* C5: a discard drops the candidate and leaves the document text, the
\* current version, the stored versions and the stored post as they were.
DiscardStep ==
  pendingMarkdown # NULL /\ pendingMarkdown' = NULL /\ accepts' = accepts

C5_DiscardKeepsDocument ==
  [][ DiscardStep
      => /\ markdown' = markdown
         /\ version' = version
         /\ dbVersions' = dbVersions
         /\ dbPost' = dbPost ]_vars

\* a batch completed and its candidate was discarded without any accept
C5_Witness ==
  /\ nBatches > 0
  /\ nextVersionId = 2
  /\ ~regen.isRegenerating
  /\ srv.pc = "idle"
  /\ pendingMarkdown = NULL
  /\ preRegenerationMarkdown = NULL
  /\ version.id = 1
  /\ DOMAIN dbVersions = { 1 }
  /\ dbPost.currentVersionId = 1

\* C6: a transaction is settled at most once: the versions created by
\* accepts never outnumber the batches dispatched, a second accept of the
\* same candidate creates no further version.
C6_OneVersionPerTransaction ==
  Cardinality(DOMAIN dbVersions) - 1 <= nBatches

\* C7: at most one transaction is open: while a batch is streaming or a
\* candidate awaits review no batch is dispatched.
C7_NoDispatchWhileOpen ==
  [][ (regen.isRegenerating \/ pendingMarkdown # NULL)
      => nBatches' = nBatches ]_vars

\* C8: no two requests of the queue have overlapping ranges.
C8_QueueNeverOverlaps == NonOverlapping(feedbackItems)

\* C9: every request of a dispatched batch has selectedText equal to the
\* base text between its offsets.
C9_DispatchedRequestsMatchBase ==
  srv.pc # "idle"
  => \A r \in BatchRequests :
       /\ ValidSpan(srv.markdown, r)
       /\ r.selectedText = TextSpan(srv.markdown, r.startOffset, r.endOffset)

\* C10: a request enters the queue with selectedText equal to the document
\* text between its offsets and with endOffset - startOffset equal to the
\* length of selectedText.
C10_NewRequestMatchesText ==
  [][ Len(feedbackItems') = Len(feedbackItems) + 1
      => LET r == feedbackItems'[Len(feedbackItems')]
         IN  /\ ValidSpan(markdown, r)
             /\ r.selectedText = TextSpan(markdown, r.startOffset, r.endOffset)
             /\ r.endOffset - r.startOffset = Len(r.selectedText) ]_vars

\* C11: an error event the reading loop handles is surfaced: the hook leaves
\* the running state and reports the failure with the message of the event.
HandlesError ==
  /\ rd < Len(sent)
  /\ sent[rd + 1].type = "error"
  /\ << sent, rd >>' # << sent, rd >>

C11_ErrorEventIsSurfaced ==
  [][ HandlesError
      => /\ lastAlert' = sent[rd + 1].message
         /\ ~regen'.isRegenerating ]_vars

\* C12: no step changes a stored version (every version keeps the content it
\* was created with), and an auto-save adds a new version to the store.
C12_AutoSaveKeepsRevisions ==
  [][ /\ \A k \in DOMAIN dbVersions :
           k \in DOMAIN dbVersions' /\ dbVersions'[k] = dbVersions[k]
      /\ nSaves' # nSaves
           => Cardinality(DOMAIN dbVersions') = Cardinality(DOMAIN dbVersions) + 1 ]_vars

\* C13: while a transaction is open (from the dispatch of a batch until the
\* accept or the discard of its candidate) no direct edit and no image insert
\* changes the text and no auto-save is written, and the text an accept finds
\* is the base text of the batch.
TransactionOpen == regen.isRegenerating \/ pendingMarkdown # NULL

C13_BaseTextFrozenWhileOpen ==
  [][ /\ TransactionOpen => (nEdits' = nEdits /\ nSaves' = nSaves)
      /\ AcceptInvoked => markdown = preRegenerationMarkdown ]_vars

\* C14: version numbers start at FirstVersionNumber and no two stored
\* versions of the document share a versionNumber.
C14_VersionNumbersUnique ==
  /\ \E k \in DOMAIN dbVersions : dbVersions[k].versionNumber = FirstVersionNumber
  /\ \A a, b \in DOMAIN dbVersions :
       a # b => dbVersions[a].versionNumber # dbVersions[b].versionNumber

\* number of newline characters of a text
CountNewlines(t) == Cardinality({ i \in 1 .. Len(t) : t[i] = "\n" })

\* C15: for 0 <= start <= end <= len(text), replaceSection returns
\* text[0:start] + r + text[end:]: its length is len(text) - (end - start) +
\* len(r), it begins with text[0:start] and ends with text[end:].
C15_ReplaceSectionSplices ==
  (call.fn = "replaceSection" /\ ValidSpan(call.text, call))
  => LET n == Len(call.text)
         s0 == call.startOffset
         e0 == call.endOffset
         out == call.outText
     IN  /\ out = SpecReplaceSpan(call.text, s0, e0, call.newContent)
         /\ Len(out) = n - (e0 - s0) + Len(call.newContent)
         /\ SubSeq(out, 1, s0) = SubSeq(call.text, 1, s0)
         /\ SubSeq(out, Len(out) - (n - e0) + 1, Len(out)) = SubSeq(call.text, e0 + 1, n)

\* a span strictly inside a text was replaced by a text of another length
C15_Witness ==
  /\ call.fn = "replaceSection"
  /\ 0 < call.startOffset /\ call.startOffset < call.endOffset
  /\ call.endOffset < Len(call.text)
  /\ Len(call.newContent) # call.endOffset - call.startOffset
  /\ call.outText = << call.text[1] >> \o call.newContent
                      \o SubSeq(call.text, call.endOffset + 1, Len(call.text))

\* C16: replaceSection called with offsets that are negative, inverted or
\* past the end of the text throws and returns no text.
C16_ReplaceSectionRejectsBadOffsets ==
  (call.fn = "replaceSection" /\ ~ValidSpan(call.text, call)) => call.threw

\* C18: for offset >= 0, offsetToLine returns 1 plus the number of newlines
\* in text[0:offset]; for offset > len(text) that is the number of the last
\* line.
C18_OffsetToLineCountsNewlines ==
  (call.fn = "offsetToLine" /\ call.startOffset >= 0)
  => /\ call.outNum =
          1 + CountNewlines(SubSeq(call.text, 1, Min(call.startOffset, Len(call.text))))
     /\ call.startOffset > Len(call.text) => call.outNum = 1 + CountNewlines(call.text)

\* an offset past the end of a text of several lines gave the last line
C18_Witness ==
  /\ call.fn = "offsetToLine"
  /\ call.startOffset > Len(call.text)
  /\ CountNewlines(call.text) >= 2
  /\ call.outNum = 3

\* the number of lines of a text and the sum the specification defines
NumLines(t) == 1 + CountNewlines(t)

RECURSIVE SumBefore(_, _)
SumBefore(lines, line) ==
  IF line <= 1 THEN 0 ELSE SumBefore(lines, line - 1) + Len(lines[line - 1]) + 1

\* C19: for a line number from 1 to the number of lines, lineToOffset returns
\* the sum of length + 1 over the lines before it, and for any line number
\* the result does not exceed len(text).
C19_LineToOffsetWithinText ==
  call.fn = "lineToOffset"
  => /\ (1 <= call.lineNumber /\ call.lineNumber <= NumLines(call.text))
          => call.outNum = SumBefore(SplitLines(call.text), call.lineNumber)
     /\ call.outNum <= Len(call.text)

\* C20: for an offset o at the start of a line of text (0, or just after a
\* newline), lineToOffset(text, offsetToLine(text, o)) = o.
LineStart(t, o) == 0 <= o /\ o <= Len(t) /\ (o = 0 \/ t[o] = "\n")

C20_LineOffsetRoundTrip ==
  (call.fn = "roundTrip" /\ LineStart(call.text, call.startOffset))
  => call.outNum = call.startOffset

\* the round trip was made from the start of a third line
C20_Witness ==
  /\ call.fn = "roundTrip"
  /\ call.startOffset = 3
  /\ LineStart(call.text, call.startOffset)
  /\ CountNewlines(call.text) = 2
  /\ call.text[1] = "a"
  /\ call.outNum = call.startOffset

\* C17: a request whose offsets lie outside [0, len(text)] or are inverted
\* is refused: every request that enters the queue has
\* 0 <= startOffset <= endOffset <= len(text) for the text at that moment.
C17_AddRejectsBadOffsets ==
  [][ Len(feedbackItems') = Len(feedbackItems) + 1
      => ValidSpan(markdown, feedbackItems'[Len(feedbackItems')]) ]_vars

\* C21: for 0 <= start <= end <= len(text) and any radius >= 0, also one
\* larger than the text, getContextAround returns, without failing,
\* before = text[max(0, start - radius):start] and
\* after = text[end:min(len(text), end + radius)], each of at most radius
\* characters.
C21_ContextWindowIsClamped ==
  (call.fn = "getContextAround" /\ ValidSpan(call.text, call) /\ call.lineNumber >= 0)
  => LET radius == call.lineNumber
     IN  /\ ~call.threw
         /\ call.outText = TextSpan(call.text, Max(0, call.startOffset - radius),
                                    call.startOffset)
         /\ call.outAfter = TextSpan(call.text, call.endOffset,
                                     Min(Len(call.text), call.endOffset + radius))
         /\ Len(call.outText) <= radius
         /\ Len(call.outAfter) <= radius

\* a window larger than the text around a span inside it: all of the text
\* before and after the span
C21_Witness ==
  /\ call.fn = "getContextAround"
  /\ call.lineNumber > Len(call.text)
  /\ 0 < call.startOffset /\ call.startOffset < call.endOffset
  /\ call.endOffset < Len(call.text)
  /\ call.outText = << call.text[1] >>
  /\ call.outAfter = << call.text[Len(call.text)] >>

\* the start of the line that holds position o of a text: just after the
\* nearest newline before o, or 0
LineStartBefore(t, o) ==
  LET newlines == { i \in 1 .. o : t[i] = "\n" }
  IN  IF newlines = { } THEN 0 ELSE CHOOSE i \in newlines : \A j \in newlines : j <= i

\* C23: insertImageAtOffset clamps the offset to [0, len(text)] and puts the
\* block at the start of the line that holds it, after a newline unless that
\* start is position 0, followed by two newlines; the characters before and
\* after that position are kept in order.
C23_ImageGoesToLineStart ==
  call.fn = "insertImageAtOffset"
  => LET n == Len(call.text)
         o == Max(0, Min(call.startOffset, n))
         p == LineStartBefore(call.text, o)
         block == (IF p = 0 THEN << >> ELSE << "\n" >>)
                    \o call.newContent \o << "\n", "\n" >>
         out == call.outText
     IN  /\ out = SubSeq(call.text, 1, p) \o block \o SubSeq(call.text, p + 1, n)
         /\ SubSeq(out, 1, p) = SubSeq(call.text, 1, p)
         /\ SubSeq(out, p + Len(block) + 1, Len(out)) = SubSeq(call.text, p + 1, n)

\* an image inserted at the end of the second line of a text goes before
\* that line
C23_Witness ==
  /\ call.fn = "insertImageAtOffset"
  /\ call.text = << "\n", "a", "a" >>
  /\ call.startOffset = 3
  /\ call.newContent = << "X", "Y" >>
  /\ call.outText = << "\n", "\n", "X", "Y", "\n", "\n", "a", "a" >>

\* concatenation of the groups of a result
RECURSIVE Flatten(_)
Flatten(groups) ==
  IF groups = << >> THEN << >> ELSE Head(groups) \o Flatten(Tail(groups))

\* the group (its position in the result) that holds position k of the
\* concatenation
RECURSIVE GroupOf(_, _)
GroupOf(groups, k) ==
  IF k <= Len(Head(groups)) THEN 1 ELSE 1 + GroupOf(Tail(groups), k - Len(Head(groups)))

\* C22: groupFeedbackByProximity returns the requests that have offsets, each
\* in exactly one group, in ascending startOffset order, and two requests
\* adjacent in that order share a group exactly when
\* next.startOffset - prev.endOffset <= threshold.
C22_GroupsPartitionByProximity ==
  call.fn = "groupFeedbackByProximity"
  => LET items == call.items
         flat  == Flatten(call.outGroups)
         withOffsets == { i \in 0 .. Len(items) - 1 : items[i + 1].startOffset # Undefined }
     IN  /\ ~call.threw
         /\ \A g \in 1 .. Len(call.outGroups) : call.outGroups[g] # << >>
         /\ Len(flat) = Cardinality(withOffsets)
         /\ { flat[k] : k \in 1 .. Len(flat) } = withOffsets
         /\ \A k \in 1 .. Len(flat) - 1 :
              LET prev == items[flat[k] + 1]
                  next == items[flat[k + 1] + 1]
              IN  /\ prev.startOffset <= next.startOffset
                  /\ (GroupOf(call.outGroups, k) = GroupOf(call.outGroups, k + 1))
                       <=> (next.startOffset - prev.endOffset <= call.threshold)

\* C24: an accept called while no candidate is present fails with
\* NoCandidateError (it throws) and changes neither the text, the versions
\* nor the queue.
C24_AcceptWithoutCandidateFails ==
  [][ (call.fn = "none" /\ call'.fn = "handleConfirmChanges")
      => /\ call'.threw
         /\ UNCHANGED << markdown, version, dbVersions, dbPost, feedbackItems,
                         pendingMarkdown >> ]_vars

\* C25: after a transaction resolves by discard none of the requests of the
\* discarded batch remains in the queue.
C25_DiscardEmptiesBatch ==
  [][ DiscardStep
      => \A i \in 1 .. Len(feedbackItems') : feedbackItems'[i] \notin BatchRequests ]_vars

\* the request of the dispatched batch with the given id
RequestOf(id) ==
  CHOOSE r \in BatchRequests : r.id = id

\* C26: whatever the order of the queue, the requests of a batch are
\* dispatched (their start events sent) in ascending startOffset order.
C26_DispatchAscendingByStart ==
  \A i, j \in 1 .. Len(sent) :
    ( /\ i < j
      /\ sent[i].type = "start"
      /\ sent[j].type = "start" )
    => RequestOf(sent[i].itemId).startOffset <= RequestOf(sent[j].itemId).startOffset

\* the event at position k of the stream closes the request started at i
CompletesAt(i, k) ==
  sent[k].type = "complete" /\ sent[k].itemId = sent[i].itemId

\* C27: requests are processed one at a time: between the start event of a
\* request and any later start event, and between it and the done event,
\* lies the complete event of that request.
C27_OneRequestAtATime ==
  \A i, j \in 1 .. Len(sent) :
    ( /\ i < j
      /\ sent[i].type = "start"
      /\ sent[j].type \in { "start", "done" } )
    => \E k \in (i + 1) .. (j - 1) : CompletesAt(i, k)

C27_Witness ==
  /\ Cardinality(EventsOfType("start")) = 2
  /\ BatchCompleted

\* C28: once a request has failed (an error event is in the stream) the
\* stream is closed at that event: no start event follows it, the batch has
\* no done event, and the items left in the loop are never taken up.
C28_FailureAbortsBatch ==
  \A i \in EventsOfType("error") :
    /\ i = Len(sent)
    /\ srv.pc = "closed"
    /\ \A j \in 1 .. Len(sent) : sent[j].type # "done"

\* the first of two requests failed; the second is still in the loop
C28_Witness ==
  /\ BatchFailed
  /\ \E k \in 1 .. Len(srv.items) : ~Skipped(srv.items[k])

\* the whole replacement text of a request: its fragments in the order of
\* the content events of the stream
RECURSIVE TotalText(_, _)
TotalText(events, id) ==
  IF events = << >> THEN << >>
  ELSE ( IF Head(events).type = "content" /\ Head(events).itemId = id
         THEN Head(events).text ELSE << >> )
       \o TotalText(Tail(events), id)

\* the text that the batch composes from the whole replacement texts alone
RECURSIVE Compose(_, _, _)
Compose(text, items, totals) ==
  IF items = << >> THEN text
  ELSE LET item == Head(items)
       IN  Compose(IF Skipped(item) THEN text
                   ELSE replaceSection(text, item.startOffset, item.endOffset,
                                       totals[item.id]),
                   Tail(items), totals)

\* C29: the candidate of a batch is a function of the batch and of the whole
\* replacement text of each request only; how the collaborator cuts a
\* replacement into fragments (how many, how long) does not enter it, so
\* every fragmentation of the same texts gives the same candidate.
C29_CandidateIgnoresFragmentation ==
  BatchCompleted
  => sent[Len(sent)].newMarkdown
       = Compose(srv.markdown, srv.feedbackItems,
                 [ id \in ItemIds(srv.feedbackItems) |-> TotalText(sent, id) ])

\* a batch completed in which a replacement came in two fragments
C29_Witness ==
  /\ BatchCompleted
  /\ \E i, j \in EventsOfType("content") :
       /\ i < j
       /\ sent[i].itemId = sent[j].itemId
       /\ sent[Len(sent)].newMarkdown # srv.markdown

\* the text after the replacements of the requests that the stream reports
\* as complete, applied in the order of their complete events
RECURSIVE RunningText(_, _)
RunningText(text, events) ==
  IF events = << >> THEN text
  ELSE LET e == Head(events)
       IN  RunningText(IF e.type = "complete"
                       THEN replaceSection(text, RequestOf(e.itemId).startOffset,
                                           RequestOf(e.itemId).endOffset,
                                           e.regeneratedText)
                       ELSE text,
                       Tail(events))

\* C30: the context window given to the collaborator for a request is cut
\* from the running text, the base with the replacements of all requests of
\* the batch resolved before it, not from the base.
C30_ContextFromRunningText ==
  srv.pc = "streaming"
  => srv.context = getContextAround(RunningText(srv.markdown, sent),
                                    srv.item.startOffset, srv.item.endOffset,
                                    ContextLength)

\* a second request is being rewritten and its window differs from the one
\* the base would give
C30_Witness ==
  /\ srv.pc = "streaming"
  /\ EventsOfType("complete") # { }
  /\ srv.context # getContextAround(srv.markdown, srv.item.startOffset,
                                    srv.item.endOffset, ContextLength)

\* position of a status in the order pending, processing, completed
StatusRank(status) ==
  CASE status = "pending" -> 0
    [] status = "processing" -> 1
    [] status = "completed" -> 2

\* the events of the stream that carry the id of a request
EventsOf(type, id) == { i \in EventsOfType(type) : sent[i].itemId = id }

\* C31: within a batch a request only moves forward: the stream holds at
\* most one start and at most one complete event for it, its content events
\* lie after its start and before its complete, and the status the client
\* shows for it never goes back (pending, processing, completed).
C31_StatusOnlyMovesForward ==
  /\ [](\A id \in ItemIds(srv.feedbackItems) :
          /\ Cardinality(EventsOf("start", id)) <= 1
          /\ Cardinality(EventsOf("complete", id)) <= 1
          /\ \A c \in EventsOf("content", id) :
               /\ \E b \in EventsOf("start", id) : b < c
               /\ \A e \in EventsOf("complete", id) : c < e
          /\ \A e \in EventsOf("complete", id) :
               \E b \in EventsOf("start", id) : b < e)
  /\ [][ (regen.isRegenerating /\ regen'.isRegenerating)
         => \A id \in DOMAIN regen.progress :
              /\ id \in DOMAIN regen'.progress
              /\ StatusRank(regen'.progress[id].status)
                   >= StatusRank(regen.progress[id].status) ]_vars

\* the client shows one request completed and the next one processing with
\* a fragment received
C31_Witness ==
  /\ regen.isRegenerating
  /\ \E a, b \in DOMAIN regen.progress :
       /\ regen.progress[a].status = "completed"
       /\ regen.progress[b].status = "processing"
       /\ regen.progress[b].text # << >>

\* the reading loop takes the next event of the stream, of the given type
ClientHandles(type) ==
  /\ rd < Len(sent)
  /\ sent[rd + 1].type = type
  /\ rd' = rd + 1

\* the route sends the complete event of the request it is rewriting
SendsComplete ==
  /\ srv.pc = "streaming"
  /\ Len(sent') > Len(sent)
  /\ sent'[Len(sent) + 1].type = "complete"

C33_AutoSaveIsDebounced ==
  /\ [](Cardinality(saveTimer) <= 1)
  /\ [][ markdown' # markdown
         => saveTimer' = IF markdown' # version'.content
                         THEN { TimerOf(markdown', version', post') } ELSE { } ]_vars
  /\ [][ nSaves' # nSaves
         => /\ saveTimer = { TimerOf(markdown, version, post) }
            /\ dbVersions'[version.id].content = markdown
            /\ saveTimer' = { } ]_vars

\* a timeout is armed for the text of the third edit in a row
C33_Witness ==
  /\ nEdits >= 3
  /\ nSaves = 0
  /\ saveTimer = { TimerOf(markdown, version, post) }

\* C34: a discard made while a batch is streaming cancels the stream and
\* drops the partial texts: after it nothing is regenerating, the route
\* sends no more events, and no progress is kept.
C34_DiscardCancelsStream ==
  [][ (DiscardStep /\ regen.isRegenerating)
      => /\ regen' = IdleRegen
         /\ srv'.pc \in { "idle", "closed" } ]_vars

\* C35: every started regeneration leaves the running state: whenever
\* isRegenerating is true it becomes false again, whether the stream ends
\* with a done event, with an error event, or with neither.
C35_RegenerationEnds ==
  regen.isRegenerating ~> ~regen.isRegenerating

\* C36: in a completed batch every text request with
\* 0 <= startOffset < endOffset <= Len(base), a request that starts at offset
\* 0 included, was dispatched (has a start event) and resolved (has a
\* complete event); none was skipped.
C36_NoValidRequestSkipped ==
  BatchCompleted
  => \A r \in BatchRequests :
       ( /\ r.type = "text"
         /\ 0 <= r.startOffset
         /\ r.startOffset < r.endOffset
         /\ r.endOffset <= Len(srv.markdown) )
       => /\ EventsOf("start", r.id) # { }
          /\ EventsOf("complete", r.id) # { }

\* the reading loop moves past the next event of the stream, of the given type
ClientPasses(type) ==
  /\ rd < Len(sent)
  /\ sent[rd + 1].type = type
  /\ rd' = rd + 1 \/ (srv.pc = "closed" /\ sent' = << >>)

\* C37: every event of the stream is handled by the client, wherever the
\* reads cut the bytes: a start, content or complete event the loop moves
\* past has updated the progress, and a done event it moves past has
\* delivered its candidate.
C37_EveryEventHandled ==
  /\ [][ ClientPasses("done")
         => pendingMarkdown' = sent[rd + 1].newMarkdown ]_vars
  /\ [][ \A type \in { "start", "content", "complete" } :
           ClientPasses(type)
           => regen'.progress = ProgressAfter(regen.progress, sent[rd + 1]) ]_vars

\* the handler of accepts[i] ends at a rejected await
AcceptFails(i) ==
  /\ i \in 1 .. Len(accepts)
  /\ accepts' = RemoveAt(accepts, i)
  /\ version' = version

\* C38: accept is atomic with respect to a persistence failure: when
\* createVersion or updatePost rejects, the text, the current version
\* (pointer and stored content) and the candidate are as they were when
\* accept was called.
C38_FailedAcceptChangesNothing ==
  [][ \A i \in 1 .. Len(accepts) :
        AcceptFails(i)
        => /\ markdown' = accepts[i].markdown
           /\ pendingMarkdown' = accepts[i].newVersion.content
           /\ dbPost'.currentVersionId = accepts[i].post.currentVersionId
           /\ dbVersions'[version.id].content = version.content ]_vars

\* the handler of an accept ends: the new version becomes the current one
AcceptEnds == Len(accepts') < Len(accepts) /\ version' # version

\* C39: accept clears only the requests of the accepted batch: a request
\* that was added to the queue after the batch was dispatched is still
\* queued after accept.
C39_AcceptKeepsLaterRequests ==
  [][ AcceptEnds
      => \A i \in 1 .. Len(feedbackItems) :
           feedbackItems[i] \notin BatchRequests
           => \E j \in 1 .. Len(feedbackItems') : feedbackItems'[j] = feedbackItems[i] ]_vars

\* C40: groupFeedbackByProximity returns without error for every list, and
\* for a non-empty list in which no item has a startOffset it returns no
\* groups.
C40_GroupingNeverThrows ==
  call.fn = "groupFeedbackByProximity"
  => /\ ~call.threw
     /\ ( /\ call.items # << >>
          /\ \A i \in 1 .. Len(call.items) : call.items[i].startOffset = Undefined )
        => call.outGroups = << >>

====
